---- MODULE Spec2Model ----
(***************************************************************************)
(* tokio-chat-server: the accept loop (ChatServer::run), the per-connection *)
(* select loop (handle_client), the broadcast channel they share and the    *)
(* message codec (ChatMessage::from_raw / to_json, Client::send).           *)
(*                                                                         *)
(* Text is modelled as a sequence of one-character strings, so that         *)
(* trimming, splitting at a colon and JSON escaping are computed character  *)
(* by character as the code computes them.                                  *)
(***************************************************************************)
EXTENDS Integers, Sequences, FiniteSets, TLC

\* ------------------------------------------------------------------ bounds

\* Connections the listener may accept in one run of the model.
MaxConns == 2

\* Messages published to the broadcast channel in one run of the model.
MaxPublish == 3

\* Messages the broadcast channel retains.  server.rs:38 asks for 100; the
\* model keeps the channel's overwrite-the-oldest behaviour and scales the
\* size down so that a receiver can fall behind within MaxPublish sends.
Capacity == 2

\* Seconds by which one Tick advances the clock.
TickSeconds == 15

\* ------------------------------------------------------- program constants

\* server.rs:71  let read_timeout = Duration::from_secs(30);
ReadTimeout == 30

\* The idle clock (a history variable) stops counting here.
IdleCap == ReadTimeout

Conns == 1..MaxConns

\* ------------------------------------------------------------------- text

Quote == "\""
Backslash == "\\"
Newline == "\n"

\* char::is_whitespace, for the characters the model uses (str::trim)
IsSpace(ch) == ch \in {" ", Newline, "\t", "\r"}

RECURSIVE TrimStart(_)
TrimStart(s) ==
    IF s = <<>> THEN <<>>
    ELSE IF IsSpace(Head(s)) THEN TrimStart(Tail(s)) ELSE s

RECURSIVE TrimEnd(_)
TrimEnd(s) ==
    IF s = <<>> THEN <<>>
    ELSE IF IsSpace(s[Len(s)]) THEN TrimEnd(SubSeq(s, 1, Len(s) - 1)) ELSE s

\* mutant: the text is taken as it is, its line end included
Trim_None(s) == s

\* str::trim: leading and trailing whitespace removed
Trim(s) == TrimEnd(TrimStart(s))

\* position of the first ch in s, 0 when there is none
RECURSIVE Find(_, _, _)
Find(s, ch, i) ==
    IF i > Len(s) THEN 0
    ELSE IF s[i] = ch THEN i ELSE Find(s, ch, i + 1)

\* position of the last ch in s, 0 when there is none
RECURSIVE FindLast(_, _, _)
FindLast(s, ch, i) ==
    IF i < 1 THEN 0
    ELSE IF s[i] = ch THEN i ELSE FindLast(s, ch, i - 1)

\* str::contains
Contains(s, t) ==
    \E i \in 1..(Len(s) - Len(t) + 1) : SubSeq(s, i, i + Len(t) - 1) = t

\* str::starts_with
StartsWith(s, t) == Len(s) >= Len(t) /\ SubSeq(s, 1, Len(t)) = t

\* ------------------------------------------------------------------ codec

\* protocol.rs:5  struct ChatMessage { sender, content }
ChatMessage(s, c) == [sender |-> s, content |-> c]

\* the two halves raw.splitn(2, ':') yields, cut at position i
SplitAt(raw, i) ==
    [ok |-> TRUE,
     msg |-> ChatMessage(Trim(SubSeq(raw, 1, i - 1)),
                         Trim(SubSeq(raw, i + 1, Len(raw))))]

InvalidFormat == [ok |-> FALSE, msg |-> ChatMessage(<<>>, <<>>)]

\* mutant: the split is made at the last colon
from_raw_LastColon(raw) ==
    LET i == FindLast(raw, ":", Len(raw))
    IN  IF i = 0 THEN InvalidFormat ELSE SplitAt(raw, i)

\* protocol.rs:13  ChatMessage::from_raw: split at the first colon, both
\* parts trimmed; an error when there is no colon
from_raw(raw) ==
    LET i == Find(raw, ":", 1)
    IN  IF i = 0 THEN InvalidFormat ELSE SplitAt(raw, i)

\* serde_json's string escaping, for the characters the model uses
RECURSIVE Escape(_)
Escape(s) ==
    IF s = <<>> THEN <<>>
    ELSE LET ch == Head(s)
             e == CASE ch = Quote     -> <<Backslash, Quote>>
                    [] ch = Backslash -> <<Backslash, Backslash>>
                    [] ch = Newline   -> <<Backslash, "n">>
                    [] ch = "\t"      -> <<Backslash, "t">>
                    [] ch = "\r"      -> <<Backslash, "r">>
                    [] OTHER          -> <<ch>>
         IN  e \o Escape(Tail(s))

\* a JSON string literal
JsonString(s) == <<Quote>> \o Escape(s) \o <<Quote>>

KeySender == <<Quote, "s", "e", "n", "d", "e", "r", Quote, ":">>
KeyContent == <<Quote, "c", "o", "n", "t", "e", "n", "t", Quote, ":">>

\* protocol.rs:24  ChatMessage::to_json: serde_json::to_string of the derived
\* Serialize, fields in declaration order, no spaces
to_json(m) ==
    <<"{">> \o KeySender \o JsonString(m.sender) \o <<",">>
            \o KeyContent \o JsonString(m.content) \o <<"}">>

\* client.rs:41  Client::send: the JSON form, then a newline
Client_send(m) == to_json(m) \o <<Newline>>

\* the legacy line "s: c" a client may write instead
LegacyLine(m) == m.sender \o <<":", " ">> \o m.content \o <<Newline>>

\* The peer address of connection c, as SocketAddr's Display prints it
\* (ip:port); the model gives connection c the port 500c.
Addr(c) ==
    <<"1", "2", "7", ".", "0", ".", "0", ".", "1", ":", "5", "0", "0">>
        \o <<ToString(c)>>

\* ----------------------------------------------------------------- inputs

\* A plain message, as tests/integration.rs:33 sends one.
PlainMessage == ChatMessage(<<"a", "l">>, <<"h", "i">>)

\* The ChatMessage values the clients of one run exchange: the plain one, or
\* one whose sender has a leading blank and whose content has a colon, a
\* quote and a trailing blank.
Messages ==
    { PlainMessage,
      ChatMessage(<<" ", "b">>, <<"x", ":", Quote, " ">>) }

\* The errors listener.accept() may return: one that concerns a single
\* attempt (ECONNABORTED, EMFILE) or the loss of the listening socket.
AcceptErrors == {"transient", "fatal"}

\* ------------------------------------------------------------------ state

VARIABLES
    said,           \* the ChatMessage the clients of this run exchange
    run_state,      \* ChatServer::run: "running", or "failed" once it returned Err
    accept_error,   \* the error accept() returned to run, "none" so far
    pump,           \* per connection: NotAccepted, Active (handle_client runs), Closed
    result,         \* per connection: what handle_client returned, "none" so far
    channel,        \* every message sent on the broadcast channel, in order
    broadcast_rx,   \* per connection: how many sends its receiver is past
    subscribedAt,   \* per connection: how many sends preceded its subscribe()
    socket,         \* per connection: what the server wrote to its socket
    timer,          \* per connection: seconds since its timeout(..) was created
    idle,           \* per connection: seconds since bytes were last read from it
    quiet           \* per connection: seconds since its last read or write

vars == <<said, run_state, accept_error, pump, result, channel, broadcast_rx,
          subscribedAt, socket, timer, idle, quiet>>

\* The clients of the model: odd connections are made by Client (client.rs)
\* and write with Client::send, even ones write legacy lines.
Wire(c) == IF c % 2 = 1 THEN "json" ELSE "legacy"

NoMessage == ChatMessage(<<>>, <<>>)

\* What one socket.read of connection c may return: the bytes of one message
\* in the client's wire form, a lone newline, or text with no colon.
Chunks(c) ==
    { [kind |-> Wire(c), msg |-> said,
       bytes |-> IF Wire(c) = "json" THEN Client_send(said) ELSE LegacyLine(said)] }
    \cup
    { [kind |-> "blank", msg |-> NoMessage, bytes |-> <<Newline>>],
      [kind |-> "nocolon", msg |-> NoMessage, bytes |-> <<"h", "e", "y", Newline>>] }

Results == {"none", "Ok", "InvalidFormat", "ReadTimeout", "RecvError",
            "ReadError", "WriteError", "SendError"}

TypeOK ==
    /\ said \in Messages
    /\ run_state \in {"running", "failed"}
    /\ accept_error \in {"none"} \cup AcceptErrors
    /\ pump \in [Conns -> {"NotAccepted", "Active", "Closed"}]
    /\ result \in [Conns -> Results]
    /\ Len(channel) <= MaxPublish
    /\ broadcast_rx \in [Conns -> 0..MaxPublish]
    /\ subscribedAt \in [Conns -> 0..MaxPublish]
    /\ timer \in [Conns -> 0..(ReadTimeout + TickSeconds)]
    /\ idle \in [Conns -> 0..IdleCap]
    /\ quiet \in [Conns -> 0..IdleCap]

\* server.rs:36  ChatServer::new: the listener bound, an empty channel, no
\* connection yet
Init ==
    /\ said \in Messages
    /\ run_state = "running"
    /\ accept_error = "none"
    /\ pump = [c \in Conns |-> "NotAccepted"]
    /\ result = [c \in Conns |-> "none"]
    /\ channel = <<>>
    /\ broadcast_rx = [c \in Conns |-> 0]
    /\ subscribedAt = [c \in Conns |-> 0]
    /\ socket = [c \in Conns |-> <<>>]
    /\ timer = [c \in Conns |-> 0]
    /\ idle = [c \in Conns |-> 0]
    /\ quiet = [c \in Conns |-> 0]

\* --------------------------------------------------------- broadcast channel

Min(a, b) == IF a < b THEN a ELSE b

\* mutant: a pump's own receiver does not count for its send
ReceiverCount_Others == Cardinality({c \in Conns : pump[c] = "Active"}) - 1

\* Receivers alive: one per connection from subscribe() until its pump returns.
ReceiverCount == Cardinality({c \in Conns : pump[c] = "Active"})

\* mutant: the receiver is created by the pump's task, which first runs after
\* the next send
Subscribe_InTask == Min(Len(channel) + 1, MaxPublish)

\* mutant: a new receiver starts at the oldest retained message
Subscribe_FromOldest ==
    IF Len(channel) > Capacity THEN Len(channel) - Capacity ELSE 0

\* server.rs:51  broadcast_tx.subscribe(): the new receiver starts at the
\* channel's tail and sees only later sends
Subscribe == Len(channel)

\* The oldest position the channel still retains.
Oldest == IF Len(channel) > Capacity THEN Len(channel) - Capacity ELSE 0

\* mutant: a bounded queue, whose send waits for the slowest receiver
CanSend_Bounded ==
    \A c \in Conns :
        pump[c] = "Active" => Len(channel) - broadcast_rx[c] < Capacity

\* server.rs:88  broadcast_tx.send: completes at once, overwriting the oldest
\* retained message when the channel is full
CanSend == TRUE

\* the positions sent since c subscribed that were not written to its socket
Pending(c) ==
    { i \in (subscribedAt[c] + 1)..Len(channel) :
        \A k \in DOMAIN socket[c] : socket[c][k].pos # i }

\* mutant: the newest pending message is handed out first
RecvPos_NewestFirst(c) ==
    IF Pending(c) = {} THEN Len(channel)
    ELSE CHOOSE i \in Pending(c) : \A j \in Pending(c) : j <= i

\* mutant: recv always returns the newest message
RecvPos_Newest(c) == Len(channel)

\* server.rs:101  broadcast_rx.recv() -> Ok: the next message in send order
RecvPos(c) == broadcast_rx[c] + 1

\* recv() has a message to return
RecvReady(c) == broadcast_rx[c] < Len(channel)

\* recv() -> Err(Lagged): the receiver's next message was overwritten
Lagging(c) == broadcast_rx[c] < Oldest

\* ---------------------------------------------------------------- actions

\* mutant: the error of one connection ends every connection
Close_All(c, r) ==
    /\ pump' = [d \in Conns |-> IF pump[d] = "Active" THEN "Closed" ELSE pump[d]]
    /\ result' = [d \in Conns |-> IF pump[d] = "Active" THEN r ELSE result[d]]
    /\ broadcast_rx' = [d \in Conns |-> 0]
    /\ timer' = [d \in Conns |-> 0]
    /\ idle' = [d \in Conns |-> 0]
    /\ quiet' = [d \in Conns |-> 0]

\* handle_client returns r: the socket, the receiver and the sender are dropped
Close(c, r) ==
    /\ pump' = [pump EXCEPT ![c] = "Closed"]
    /\ result' = [result EXCEPT ![c] = r]
    /\ broadcast_rx' = [broadcast_rx EXCEPT ![c] = 0]
    /\ timer' = [timer EXCEPT ![c] = 0]
    /\ idle' = [idle EXCEPT ![c] = 0]
    /\ quiet' = [quiet EXCEPT ![c] = 0]

\* the next connection the listener hands out
NextConn == Cardinality({c \in Conns : pump[c] # "NotAccepted"}) + 1

\* server.rs:49-58  accept() -> Ok: subscribe, then spawn handle_client, whose
\* task exists from here on with its receiver (server.rs:63-73); the runtime
\* starts it, and its first timeout(..), before any time worth a Tick passes
Accept ==
    /\ run_state = "running"
    /\ NextConn \in Conns
    /\ LET c == NextConn
       IN  /\ pump' = [pump EXCEPT ![c] = "Active"]
           /\ broadcast_rx' = [broadcast_rx EXCEPT ![c] = Subscribe]
           /\ subscribedAt' = [subscribedAt EXCEPT ![c] = Len(channel)]
           /\ timer' = [timer EXCEPT ![c] = 0]
           /\ idle' = [idle EXCEPT ![c] = 0]
           /\ quiet' = [quiet EXCEPT ![c] = 0]
    /\ UNCHANGED <<said, run_state, accept_error, result, channel, socket>>

\* server.rs:49  accept() -> Err: the ? returns the error from run
AcceptFail(e) ==
    /\ run_state = "running"
    /\ run_state' = "failed"
    /\ accept_error' = e
    /\ UNCHANGED <<said, pump, result, channel, broadcast_rx, subscribedAt,
                   socket, timer, idle, quiet>>

\* server.rs:88  broadcast_tx.send(formatted): the message joins the channel
Send(entry) ==
    /\ CanSend
    /\ Len(channel) < MaxPublish
    /\ channel' = Append(channel, entry)

\* server.rs:86  format!("{}: {}", addr, json)
Formatted(c, m) == Addr(c) \o <<":", " ">> \o to_json(m)

\* mutant: one timeout for the whole connection, created before the loop
Rearm_Never(c) == UNCHANGED timer

\* server.rs:73-75  the handler returned to the loop: the next select! creates
\* timeout(read_timeout, socket.read(..)) anew
Rearm(c) == timer' = [timer EXCEPT ![c] = 0]

\* server.rs:81-90  read -> Ok(n), n > 0: the client wrote chunk
ReadBytes(c, chunk) ==
    /\ pump[c] = "Active"
    /\ LET raw == Trim(chunk.bytes)
           parsed == from_raw(raw)
       IN  IF raw = <<>>
           THEN /\ Rearm(c)
                /\ idle' = [idle EXCEPT ![c] = 0]
                /\ quiet' = [quiet EXCEPT ![c] = 0]
                /\ UNCHANGED <<pump, result, channel, broadcast_rx>>
           ELSE IF ~parsed.ok
           THEN /\ Close(c, "InvalidFormat")
                /\ UNCHANGED channel
           ELSE IF ReceiverCount = 0
           THEN /\ Close(c, "SendError")
                /\ UNCHANGED channel
           ELSE /\ Send([text |-> Formatted(c, parsed.msg),
                      from |-> c,
                      kind |-> chunk.kind,
                      orig |-> chunk.msg,
                      msg |-> parsed.msg])
                /\ Rearm(c)
                /\ idle' = [idle EXCEPT ![c] = 0]
                /\ quiet' = [quiet EXCEPT ![c] = 0]
                /\ UNCHANGED <<pump, result, broadcast_rx>>
    /\ UNCHANGED <<said, run_state, accept_error, subscribedAt, socket>>

\* mutant: one client closing its end closes the channel for every pump, each
\* returning Ok as on RecvError::Closed
ReadEof_ClosesAll(c) ==
    /\ pump[c] = "Active"
    /\ Close_All(c, "Ok")
    /\ UNCHANGED <<said, run_state, accept_error, channel, subscribedAt, socket>>

\* server.rs:77-80  read -> Ok(0): the client closed its end
ReadEof(c) ==
    /\ pump[c] = "Active"
    /\ Close(c, "Ok")
    /\ UNCHANGED <<said, run_state, accept_error, channel, subscribedAt, socket>>

\* server.rs:91-94  read -> Err: the connection was reset, as when a client
\* is dropped with broadcasts unread
ReadFail(c) ==
    /\ pump[c] = "Active"
    /\ Close(c, "ReadError")
    /\ UNCHANGED <<said, run_state, accept_error, channel, subscribedAt, socket>>

\* mutant: the deadline counts from the last bytes read
Timeout_Idle(c) ==
    /\ pump[c] = "Active"
    /\ idle[c] >= ReadTimeout
    /\ Close(c, "ReadTimeout")
    /\ UNCHANGED <<said, run_state, accept_error, channel, subscribedAt, socket>>

\* server.rs:95-98  the timeout elapsed before the read completed
Timeout(c) ==
    /\ pump[c] = "Active"
    /\ timer[c] >= ReadTimeout
    /\ Close(c, "ReadTimeout")
    /\ UNCHANGED <<said, run_state, accept_error, channel, subscribedAt, socket>>

\* mutant: recv hands out a copy of the message and leaves it in the queue
\* when the read branch is ready too
RecvMessage_Peek(c) ==
    /\ pump[c] = "Active"
    /\ RecvReady(c)
    /\ ~Lagging(c)
    /\ Len(socket[c]) < MaxPublish + 1
    /\ LET pos == RecvPos(c)
       IN  /\ socket' = [socket EXCEPT
                     ![c] = Append(@, [pos |-> pos, text |-> channel[pos].text])]
           /\ \/ broadcast_rx' = [broadcast_rx EXCEPT ![c] = @ + 1]
              \/ UNCHANGED broadcast_rx
           /\ Rearm(c)
           /\ quiet' = [quiet EXCEPT ![c] = 0]
           /\ UNCHANGED <<pump, result, idle>>
    /\ UNCHANGED <<said, run_state, accept_error, channel, subscribedAt>>

\* server.rs:103-106  recv -> Ok(message): write_all(message) to the socket;
\* the write fails, and the ? returns the error, when the client is gone
RecvMessage(c) ==
    /\ pump[c] = "Active"
    /\ RecvReady(c)
    /\ ~Lagging(c)
    /\ LET pos == RecvPos(c)
       IN  \/ /\ broadcast_rx' = [broadcast_rx EXCEPT ![c] = @ + 1]
              /\ socket' = [socket EXCEPT
                     ![c] = Append(@, [pos |-> pos, text |-> channel[pos].text])]
              /\ Rearm(c)
              /\ quiet' = [quiet EXCEPT ![c] = 0]
              /\ UNCHANGED <<pump, result, idle>>
           \/ /\ Close(c, "WriteError")
              /\ UNCHANGED socket
    /\ UNCHANGED <<said, run_state, accept_error, channel, subscribedAt>>

\* server.rs:111-114  recv -> Err(Lagged(n)): handle_client returns the error
\* (the receiver, moved by recv to the oldest retained message, is dropped)
RecvLagged(c) ==
    /\ pump[c] = "Active"
    /\ Lagging(c)
    /\ Close(c, "RecvError")
    /\ UNCHANGED <<said, run_state, accept_error, channel, subscribedAt, socket>>

\* TickSeconds pass.  A pump is woken by a message it can receive and by its
\* elapsed timeout well within a tick, so both are handled before the clock
\* moves on.
Tick ==
    /\ \E c \in Conns : pump[c] = "Active"
    /\ \A c \in Conns : pump[c] = "Active" => ~RecvReady(c)
    /\ \A c \in Conns : pump[c] = "Active" => timer[c] < ReadTimeout
    /\ timer' = [c \in Conns |->
                    IF pump[c] = "Active" THEN timer[c] + TickSeconds ELSE timer[c]]
    /\ idle' = [c \in Conns |->
                    IF pump[c] = "Active" THEN Min(idle[c] + TickSeconds, IdleCap)
                    ELSE idle[c]]
    /\ quiet' = [c \in Conns |->
                    IF pump[c] = "Active" THEN Min(quiet[c] + TickSeconds, IdleCap)
                    ELSE quiet[c]]
    /\ UNCHANGED <<said, run_state, accept_error, pump, result, channel,
                   broadcast_rx, subscribedAt, socket>>

Next ==
    \/ Accept
    \/ \E e \in AcceptErrors : AcceptFail(e)
    \/ \E c \in Conns : \E chunk \in Chunks(c) : ReadBytes(c, chunk)
    \/ \E c \in Conns : ReadEof(c)
    \/ \E c \in Conns : ReadFail(c)
    \/ \E c \in Conns : Timeout(c)
    \/ \E c \in Conns : RecvMessage(c)
    \/ \E c \in Conns : RecvLagged(c)
    \/ Tick

Spec == Init /\ [][Next]_vars

\* The runtime schedules every pump, and select! picks among the ready
\* branches at random, so a receive that stays ready is taken.
Fairness ==
    \A c \in Conns : WF_vars(RecvMessage(c)) /\ WF_vars(RecvLagged(c))

\* the runs in which the clients exchange the plain message
FairInit == Init /\ said = PlainMessage

FairSpec == FairInit /\ [][Next]_vars /\ Fairness

\* ------------------------------------------------------------------ claims

\* message number i of the channel was written to c's socket
Written(c, i) == \E k \in DOMAIN socket[c] : socket[c][k].pos = i

\* message number i of the channel was written to c's socket, text unchanged
WrittenExactly(c, i) ==
    /\ i \in DOMAIN channel
    /\ \E k \in DOMAIN socket[c] :
        socket[c][k] = [pos |-> i, text |-> channel[i].text]

\* c's socket has message i before message j
Before(c, i, j) ==
    \E k1, k2 \in DOMAIN socket[c] :
        k1 < k2 /\ socket[c][k1].pos = i /\ socket[c][k2].pos = j

\* C1 (fan-out): a message sent on the channel after connection c subscribed
\* is eventually written to c's socket, text unchanged, unless c's pump ends;
\* the sender's own connection included.
FanOut ==
    \A c \in Conns : \A i \in 1..MaxPublish :
        (pump[c] = "Active" /\ subscribedAt[c] < i /\ i <= Len(channel))
            ~> (pump[c] # "Active" \/ WrittenExactly(c, i))

\* C1 witness: a message was written to every connection, its sender included.
FanOutWitness ==
    \E i \in DOMAIN channel :
        \A c \in Conns : pump[c] = "Active" /\ WrittenExactly(c, i)

\* C2 (total order): two messages that were both written to two connections
\* were written to both in the same order.
TotalOrder ==
    \A a, b \in Conns : \A i, j \in DOMAIN channel :
        (i # j /\ Written(a, i) /\ Written(a, j) /\ Written(b, i) /\ Written(b, j))
            => (Before(a, i, j) <=> Before(b, i, j))

\* C2 witness: two messages from different senders, written to both connections.
TotalOrderWitness ==
    \E i, j \in DOMAIN channel :
        /\ channel[i].from # channel[j].from
        /\ \A c \in Conns : Written(c, i) /\ Written(c, j)

\* C3 (isolation): the step in which connection a's pump ends on a payload
\* the codec rejects ends that pump only: the channel and every other
\* connection's pump, receiver, socket and timeout are as they were, so what
\* the others could read, publish and write before they still can.
Isolation ==
    [][\A a \in Conns :
        (pump[a] = "Active" /\ result'[a] = "InvalidFormat")
            => /\ pump'[a] = "Closed"
               /\ run_state' = run_state
               /\ channel' = channel
               /\ \A b \in Conns \ {a} :
                    /\ pump'[b] = pump[b]
                    /\ result'[b] = result[b]
                    /\ broadcast_rx'[b] = broadcast_rx[b]
                    /\ socket'[b] = socket[b]
                    /\ timer'[b] = timer[b]]_vars

\* C3 witness: one pump ended on a rejected payload while another runs with a
\* broadcast pending and room to publish.
IsolationWitness ==
    \E a, b \in Conns :
        /\ result[a] = "InvalidFormat"
        /\ pump[b] = "Active"
        /\ RecvReady(b)
        /\ Len(channel) < MaxPublish

\* C4 (lag is not fatal): a pump whose receive returns Lagged keeps running.
LagNonFatal ==
    [][\A c \in Conns : RecvLagged(c) => pump'[c] = "Active"]_vars

\* C5 (send never waits): a running pump's send completes whatever the other
\* receivers have left unreceived, a full channel included, as long as the
\* run has messages left to send.
PublishNeverBlocks ==
    \A c \in Conns :
        (pump[c] = "Active" /\ Len(channel) < MaxPublish)
            => ENABLED Send([text |-> <<>>, from |-> c, kind |-> "blank",
                             orig |-> NoMessage, msg |-> NoMessage])

\* C5 witness: connection a has the whole channel unreceived and has lost a
\* message, and connection b has since sent the newest message and received it.
PublishNeverBlocksWitness ==
    \E a, b \in Conns :
        /\ a # b
        /\ pump[a] = "Active" /\ Lagging(a)
        /\ pump[b] = "Active"
        /\ channel[Len(channel)].from = b
        /\ Written(b, Len(channel))

\* C6 (idle timeout): the clock does not pass a connection that has sent no
\* bytes for the timeout and is still open.
IdleTimeoutCloses ==
    [][Tick => \A c \in Conns : pump[c] = "Active" => idle[c] < ReadTimeout]_vars

\* C7 (accept errors are recovered): run returns only on a fatal failure of
\* the listener.
AcceptErrorRecovered == run_state = "failed" => accept_error = "fatal"

\* the channel entry behind the k-th write to c's socket
Source(c, k) == channel[socket[c][k].pos]

\* C8 (structured relay): what another connection is written for a message
\* sent with Client::send starts with the sender's peer address and contains
\* "sender":s and "content":c unchanged.
StructuredRelay ==
    \A c \in Conns : \A k \in DOMAIN socket[c] :
        (Source(c, k).kind = "json" /\ Source(c, k).from # c)
            => /\ StartsWith(socket[c][k].text, Addr(Source(c, k).from))
               /\ Contains(socket[c][k].text,
                           KeySender \o JsonString(Source(c, k).orig.sender))
               /\ Contains(socket[c][k].text,
                           KeyContent \o JsonString(Source(c, k).orig.content))

CodecEquivalence ==
    \A i, j \in DOMAIN channel :
        (channel[i].orig = channel[j].orig
            /\ channel[i].kind = "json" /\ channel[j].kind = "legacy")
            => channel[i].msg = channel[j].msg

\* C11 (peer close is local): the step in which connection a's pump reads
\* zero bytes ends that pump, with Ok, and nothing else: run goes on, the
\* channel and every other connection's pump, result, receiver, socket and
\* timeout are as they were.
PeerCloseLocal ==
    [][\A a \in Conns :
        ReadEof(a)
            => /\ pump'[a] = "Closed"
               /\ result'[a] = "Ok"
               /\ run_state' = run_state
               /\ channel' = channel
               /\ subscribedAt' = subscribedAt
               /\ \A b \in Conns \ {a} :
                    /\ pump'[b] = pump[b]
                    /\ result'[b] = result[b]
                    /\ broadcast_rx'[b] = broadcast_rx[b]
                    /\ socket'[b] = socket[b]
                    /\ timer'[b] = timer[b]
                    /\ idle'[b] = idle[b]]_vars

\* C11 witness: one pump returned Ok on its client's close while another runs
\* with a broadcast of the closed connection pending and room to publish.
PeerCloseLocalWitness ==
    \E a, b \in Conns :
        /\ result[a] = "Ok"
        /\ pump[b] = "Active"
        /\ RecvReady(b)
        /\ channel[RecvPos(b)].from = a
        /\ Len(channel) < MaxPublish

\* C12 (send never fails): no pump returns because its own send failed: the
\* pump that sends holds a receiver of the channel, whatever the other
\* connections do.
PublishNeverFails == \A c \in Conns : result[c] # "SendError"

\* C12 witness: the only connection there is has sent every message of the run.
PublishNeverFailsWitness ==
    \E c \in Conns :
         /\ pump[c] = "Active"
         /\ \A d \in Conns \ {c} : pump[d] = "NotAccepted"
         /\ Len(channel) = MaxPublish

\* C13 (outbound framing): every write to a client's socket ends with one
\* newline, and has no other.
OutboundFraming ==
    \A c \in Conns : \A k \in DOMAIN socket[c] :
        LET text == socket[c][k].text
        IN  /\ text # <<>>
            /\ text[Len(text)] = Newline
            /\ \A n \in 1..(Len(text) - 1) : text[n] # Newline

\* C14 (order per sender): two messages of one connection, which its pump
\* sent in the order it read them, are written to every connection that has
\* both in that order.
OrderPerSender ==
    \A c \in Conns : \A i, j \in DOMAIN channel :
        (i < j /\ channel[i].from = channel[j].from
               /\ Written(c, i) /\ Written(c, j))
            => Before(c, i, j) /\ ~Before(c, j, i)

\* C14 witness: a connection was written two messages of another connection.
OrderPerSenderWitness ==
    \E c \in Conns : \E i, j \in DOMAIN channel :
        /\ i < j
        /\ channel[i].from = channel[j].from
        /\ channel[i].from # c
        /\ Written(c, i) /\ Written(c, j)

\* C15 (at most once): a step runs one handler of one pump: a read sends at
\* most one message and neither receives nor writes, a receive writes one
\* message, which that socket has not been written before, moves that
\* receiver past one message and sends nothing.
AtMostOnce ==
    [][/\ Len(channel') <= Len(channel) + 1
       /\ channel' # channel
            => /\ SubSeq(channel', 1, Len(channel)) = channel
               /\ socket' = socket
               /\ \A c \in Conns :
                    pump'[c] = "Active" => broadcast_rx'[c] = broadcast_rx[c]
       /\ \A c \in Conns :
            socket'[c] # socket[c]
                => /\ Len(socket'[c]) = Len(socket[c]) + 1
                   /\ SubSeq(socket'[c], 1, Len(socket[c])) = socket[c]
                   /\ ~Written(c, socket'[c][Len(socket'[c])].pos)
                   /\ broadcast_rx'[c] = broadcast_rx[c] + 1
                   /\ channel' = channel
                   /\ \A d \in Conns \ {c} :
                        socket'[d] = socket[d]
                            /\ broadcast_rx'[d] = broadcast_rx[d]]_vars

\* C15 witness: a pump whose connection was sent a message by another has
\* read and sent one of its own, and has written both, once each.
AtMostOnceWitness ==
    \E c \in Conns :
        /\ Len(socket[c]) = 2
        /\ socket[c][1].pos = 1 /\ socket[c][2].pos = 2
        /\ channel[1].from # c /\ channel[2].from = c
        /\ subscribedAt[c] = 0

\* C16 (per-read deadline): a pump returns on the read timeout only when no
\* bytes were read from its connection for the timeout.
PerReadDeadline ==
    [][\A c \in Conns :
        (pump[c] = "Active" /\ result'[c] = "ReadTimeout")
            => idle[c] >= ReadTimeout]_vars

\* C16 witness: connection 2, accepted after connection 1, has timed out, and
\* connection 1, which was written nothing, still runs with time left: bytes
\* were read from it in between.
PerReadDeadlineWitness ==
    /\ result[2] = "ReadTimeout"
    /\ pump[1] = "Active"
    /\ socket[1] = <<>>
    /\ channel = <<>>
    /\ timer[1] < ReadTimeout

\* C17 (late subscribers): a connection is written no message that was sent
\* before the acceptor subscribed for it.
LateSubscriber ==
    \A c \in Conns : \A k \in DOMAIN socket[c] :
        socket[c][k].pos > subscribedAt[c]

\* C17 witness: a connection accepted after a message was sent has been
\* written a later one.
LateSubscriberWitness ==
    \E c \in Conns : subscribedAt[c] > 0 /\ socket[c] # <<>>

\* the lone newline that Client::send writes after the JSON (client.rs:45),
\* returned by a read of its own
BlankChunk == [kind |-> "blank", msg |-> NoMessage, bytes |-> <<Newline>>]

\* C18 (blank input is ignored): the step in which a pump reads bytes that
\* are empty once trimmed sends nothing and ends no pump: the channel, every
\* pump and every result are as they were.
BlankIgnored ==
    [][\A c \in Conns :
        ReadBytes(c, BlankChunk)
            => /\ pump'[c] = "Active"
               /\ pump' = pump
               /\ result' = result
               /\ channel' = channel
               /\ socket' = socket]_vars

\* C18 witness: no message was sent, time has passed for connection 2, which
\* was accepted after connection 1, and connection 1 runs with bytes read
\* just now: a blank read.
BlankIgnoredWitness ==
    /\ pump[1] = "Active" /\ pump[2] = "Active"
    /\ channel = <<>>
    /\ idle[1] = 0
    /\ idle[2] > 0

\* C19 (no gap between accept and pump start): the receiver of a running
\* pump that has not lagged has skipped nothing: every message sent since its
\* connection was accepted was written to its socket or is still retained
\* and ahead of the receiver.
NoGap ==
    \A c \in Conns :
        (pump[c] = "Active" /\ ~Lagging(c))
            => \A i \in (subscribedAt[c] + 1)..Len(channel) :
                    \/ Written(c, i)
                    \/ i > broadcast_rx[c] /\ i > Oldest

\* C19 witness: the two messages another connection sent after connection c
\* was accepted are the first two written to c's socket.
NoGapWitness ==
    \E c \in Conns :
        /\ pump[c] = "Active"
        /\ Len(socket[c]) = 2
        /\ socket[c][1].pos = subscribedAt[c] + 1
        /\ socket[c][2].pos = subscribedAt[c] + 2
        /\ channel[socket[c][1].pos].from # c
        /\ channel[socket[c][2].pos].from # c

\* C20 (the deadline is re-armed by every iteration): a write to a
\* connection's socket starts its timeout anew, and a pump returns on the
\* read timeout only when its connection had neither bytes read nor a message
\* written for the timeout.
RearmedEveryIteration ==
    [][\A c \in Conns :
        /\ (pump'[c] = "Active" /\ socket'[c] # socket[c]) => timer'[c] = 0
        /\ (pump[c] = "Active" /\ result'[c] = "ReadTimeout")
                => quiet[c] >= ReadTimeout]_vars

\* C20 witness: a connection that sent nothing and was written a message has
\* timed out.
RearmedEveryIterationWitness ==
    \E c \in Conns :
        /\ result[c] = "ReadTimeout"
        /\ socket[c] # <<>>
        /\ \A i \in DOMAIN channel : channel[i].from # c

====
